---- MODULE Spec2Model ----
(***************************************************************************)
(* A model of packages/agents-core/src/utils/zodJsonSchemaCompat.ts: the   *)
(* manual Zod -> JSON Schema converter, the unrepresentable-type scanner   *)
(* and the Zod 4 native delegate with its error composition.               *)
(*                                                                         *)
(* A schema tree lives in `heap`: node i is heap[i], a record holding the  *)
(* node's kind and the populated fields of its definition.  A reference    *)
(* to a node is its index, so `===` of the source is `=` on indices.       *)
(***************************************************************************)
EXTENDS Integers, Sequences, FiniteSets, TLC

\* ------------------------------------------------------------------ bounds
MaxNodes == 4
MaxKeys == 2
MaxItems == 2

\* ------------------------------------------------------------- JS values
\* Values that can stand where the source expects a schema node.
Undefined == 0
Null == 0 - 1
NoType == ""

VARIABLES heap, input, call, mapping

vars == <<heap, input, call, mapping>>

IsNode(v) == v \in 1..Len(heap)

\* ---------------------------------------------------------- module tables
JSON_SCHEMA_DRAFT_07 == "http://json-schema.org/draft-07/schema#"

OPTIONAL_WRAPPERS == {"optional"}

DECORATOR_WRAPPERS ==
  {"brand", "branded", "catch", "default", "effects", "pipeline", "pipe",
   "prefault", "readonly", "refinement", "transform"}

SIMPLE_TYPE_MAPPING ==
  [string  |-> [type |-> "string"],
   number  |-> [type |-> "number"],
   bigint  |-> [type |-> "integer"],
   boolean |-> [type |-> "boolean"],
   date    |-> [type |-> "string", format |-> "date-time"]]

\* The `undefined` a builder returns when it cannot build an entry.
Absent == [absent |-> TRUE]

IsAbsent(e) == "absent" \in DOMAIN e

\* ------------------------------------------------------ node introspection
\* The definition of a node is the node record itself (its fields other
\* than `kind`); anything that is not a node has no definition.
NoDef == [kind |-> NoType]

readZodDefinition(v) == IF IsNode(v) THEN heap[v] ELSE NoDef

readZodType(v) == readZodDefinition(v).kind

\* def?.f
Field(def, f) == IF f \in DOMAIN def THEN def[f] ELSE Undefined

\* a ?? b
Nullish(v) == v = Undefined \/ v = Null

\* !v for a value that is a node reference, null or undefined
Falsy(v) == v = Undefined \/ v = Null

RECURSIVE extractFirstFrom(_, _, _)
extractFirstFrom(def, keys, i) ==
  IF i > Len(keys) THEN Undefined
  ELSE IF keys[i] \in DOMAIN def /\ def[keys[i]] # Undefined THEN def[keys[i]]
  ELSE extractFirstFrom(def, keys, i + 1)

extractFirst(def, keys) ==
  IF def = NoDef THEN Undefined ELSE extractFirstFrom(def, keys, 1)

\* Array.isArray(value) ? value : value === undefined ? [] : [value]
\* A list-valued field (items, options, schemas) holds an array when present.
coerceArray(def, f) == IF f \in DOMAIN def THEN def[f] ELSE <<>>

\* ------------------------------------------------------------ unwrapping
InnerCandidates == <<"innerType", "schema", "base", "type", "wrapped", "underlying">>

RECURSIVE firstNonNullish(_, _, _)
firstNonNullish(def, keys, i) ==
  IF i > Len(keys) THEN Undefined
  ELSE IF ~Nullish(Field(def, keys[i])) THEN def[keys[i]]
  ELSE firstNonNullish(def, keys, i + 1)

RECURSIVE unwrapDecorators(_)

\* Strips a single decorator layer: an `if` where the source has a `while`.
unwrapDecorators_once(value) ==
  IF readZodType(value) \in DECORATOR_WRAPPERS
  THEN LET next == firstNonNullish(readZodDefinition(value), InnerCandidates, 1)
       IN IF Falsy(next) \/ next = value THEN value ELSE next
  ELSE value

unwrapDecorators(value) ==
  IF readZodType(value) \in DECORATOR_WRAPPERS
  THEN LET next == firstNonNullish(readZodDefinition(value), InnerCandidates, 1)
       IN IF Falsy(next) \/ next = value THEN value ELSE unwrapDecorators(next)
  ELSE value

\* ------------------------------------------------------------- readShape
\* The shape of an object node: the sequence Object.entries(shape) yields,
\* each element a pair <<key, field node>>.
HasShape(v) == IsNode(v) /\ "shape" \in DOMAIN heap[v]

readShape(v) == heap[v].shape

\* ------------------------------------------------------ manual converter
RECURSIVE convertSchema(_)
RECURSIVE buildObjectSchema(_)
RECURSIVE stripOptional(_, _)

\* The while loop of convertProperty: `current` is already decorator-free.
stripOptional(current, optional) ==
  IF readZodType(current) \in OPTIONAL_WRAPPERS
  THEN LET next == unwrapDecorators(Field(readZodDefinition(current), "innerType"))
       IN IF Falsy(next) \/ next = current
          THEN [node |-> current, optional |-> TRUE]
          ELSE stripOptional(next, TRUE)
  ELSE [node |-> current, optional |-> optional]

convertProperty(value) ==
  LET r == stripOptional(unwrapDecorators(value), FALSE)
  IN [schema |-> convertSchema(r.node), optional |-> r.optional]

\* Pushes every key: the `if (!optional)` test forgotten.
requiredFrom_everyKey(shape, i) ==
  [j \in 1..(Len(shape) + 1 - i) |-> shape[j + i - 1][1]]

\* The `required` array the loop of buildObjectSchema pushes, from field i on.
RECURSIVE requiredFrom(_, _)
requiredFrom(shape, i) ==
  IF i > Len(shape) THEN <<>>
  ELSE (IF convertProperty(shape[i][2]).optional THEN <<>> ELSE <<shape[i][1]>>)
       \o requiredFrom(shape, i + 1)

\* Skips a field that fails to convert instead of giving up.
buildObjectSchema_skipFailed(value) ==
  IF ~HasShape(value) THEN Absent
  ELSE LET shape == SelectSeq(readShape(value),
                              LAMBDA p : ~IsAbsent(convertProperty(p[2]).schema))
       IN [type |-> "object",
           properties |->
             [k \in {shape[i][1] : i \in 1..Len(shape)} |->
                LET i == CHOOSE j \in 1..Len(shape) : shape[j][1] = k
                IN convertProperty(shape[i][2]).schema],
           required |-> requiredFrom(shape, 1),
           additionalProperties |-> FALSE]

buildObjectSchema(value) ==
  IF ~HasShape(value) THEN Absent
  ELSE LET shape == readShape(value)
       IN IF \E i \in 1..Len(shape) : IsAbsent(convertProperty(shape[i][2]).schema)
          THEN Absent
          ELSE [type |-> "object",
                properties |->
                  [k \in {shape[i][1] : i \in 1..Len(shape)} |->
                     LET i == CHOOSE j \in 1..Len(shape) : shape[j][1] = k
                     IN convertProperty(shape[i][2]).schema],
                required |-> requiredFrom(shape, 1),
                additionalProperties |-> FALSE]

buildArraySchema(def) ==
  LET items == convertSchema(extractFirst(def, <<"element", "items", "type">>))
  IN IF IsAbsent(items) THEN Absent ELSE [type |-> "array", items |-> items]

\* .map((item) => convertSchema(item)).filter(Boolean)
convertAll(list) ==
  SelectSeq([i \in 1..Len(list) |-> convertSchema(list[i])],
            LAMBDA e : ~IsAbsent(e))

\* Counts the items the node declares, not the ones that were converted.
buildTupleSchema_declaredCount(def) ==
  LET items == convertAll(coerceArray(def, "items"))
  IN IF Len(items) = 0 THEN Absent
     ELSE IF Falsy(Field(def, "rest"))
          THEN [type |-> "array", items |-> items,
                minItems |-> Len(coerceArray(def, "items")),
                maxItems |-> Len(coerceArray(def, "items"))]
          ELSE [type |-> "array", items |-> items,
                minItems |-> Len(coerceArray(def, "items"))]

buildTupleSchema(def) ==
  LET items == convertAll(coerceArray(def, "items"))
  IN IF Len(items) = 0 THEN Absent
     ELSE IF Falsy(Field(def, "rest"))
          THEN [type |-> "array", items |-> items, minItems |-> Len(items),
                maxItems |-> Len(items)]
          ELSE [type |-> "array", items |-> items, minItems |-> Len(items)]

buildUnionSchema(def) ==
  LET options == convertAll(IF "options" \in DOMAIN def
                            THEN def.options
                            ELSE coerceArray(def, "schemas"))
  IN IF Len(options) = 0 THEN Absent ELSE [anyOf |-> options]

buildIntersectionSchema(def) ==
  LET left == convertSchema(Field(def, "left"))
      right == convertSchema(Field(def, "right"))
  IN IF IsAbsent(left) \/ IsAbsent(right) THEN Absent
     ELSE [allOf |-> <<left, right>>]

valueTypeOf(def) ==
  IF ~Nullish(Field(def, "valueType")) THEN def.valueType ELSE Field(def, "values")

buildRecordSchema(def) ==
  LET valueSchema == convertSchema(valueTypeOf(def))
  IN IF IsAbsent(valueSchema) THEN Absent
     ELSE [type |-> "object", additionalProperties |-> valueSchema]

buildMapSchema(def) ==
  LET valueSchema == convertSchema(valueTypeOf(def))
  IN IF IsAbsent(valueSchema) THEN Absent
     ELSE [type |-> "array", items |-> valueSchema]

buildSetSchema(def) ==
  LET valueSchema == convertSchema(Field(def, "valueType"))
  IN IF IsAbsent(valueSchema) THEN Absent
     ELSE [type |-> "array", items |-> valueSchema, uniqueItems |-> TRUE]

buildNullableSchema(def) ==
  LET inner == convertSchema(IF ~Nullish(Field(def, "innerType"))
                             THEN def.innerType ELSE Field(def, "type"))
  IN IF IsAbsent(inner) THEN Absent
     ELSE [anyOf |-> <<inner, [type |-> "null"]>>]

\* A literal value is a record [jstype, repr]: its typeof and its printed form.
\* extractFirst(def, 'value', 'literal') !== undefined
buildLiteral(def) ==
  IF def = NoDef THEN Absent
  ELSE IF "value" \in DOMAIN def
       THEN [const |-> def.value.repr,
             type |-> IF def.value.jstype = "null" THEN "null" ELSE def.value.jstype]
  ELSE IF "literal" \in DOMAIN def
       THEN [const |-> def.literal.repr,
             type |-> IF def.literal.jstype = "null" THEN "null" ELSE def.literal.jstype]
  ELSE Absent

\* The value of def.values, def.options or def.enum of an enum node is a
\* record [isArray, members]: an array of members, or an object whose
\* Object.values are the members.
buildEnum(def) ==
  IF def = NoDef THEN Absent
  ELSE IF "values" \in DOMAIN def /\ def.values.isArray
       THEN [enum |-> def.values.members]
  ELSE IF "options" \in DOMAIN def /\ def.options.isArray
       THEN [enum |-> def.options.members]
  ELSE IF "values" \in DOMAIN def THEN [enum |-> def.values.members]
  ELSE IF "enum" \in DOMAIN def /\ ~def.enum.isArray THEN [enum |-> def.enum.members]
  ELSE Absent

convertSchema(value) ==
  IF value = Undefined THEN Absent
  ELSE LET unwrapped == unwrapDecorators(value)
           type == readZodType(unwrapped)
           def == readZodDefinition(unwrapped)
       IN IF type = NoType THEN Absent
          ELSE IF type \in DOMAIN mapping THEN mapping[type]
          ELSE CASE type = "object" -> buildObjectSchema(unwrapped)
                 [] type = "array" -> buildArraySchema(def)
                 [] type = "tuple" -> buildTupleSchema(def)
                 [] type = "union" -> buildUnionSchema(def)
                 [] type = "intersection" -> buildIntersectionSchema(def)
                 [] type = "literal" -> buildLiteral(def)
                 [] type \in {"enum", "nativeenum"} -> buildEnum(def)
                 [] type = "record" -> buildRecordSchema(def)
                 [] type = "map" -> buildMapSchema(def)
                 [] type = "set" -> buildSetSchema(def)
                 [] type = "nullable" -> buildNullableSchema(def)
                 [] OTHER -> Absent

\* ------------------------------------------------ unrepresentable types
UnrepresentableTypes ==
  {"set", "map", "date", "promise", "function", "custom", "nan", "undefined",
   "void", "symbol"}

\* a || b || c over the fields `keys` of def
RECURSIVE firstTruthy(_, _, _)
firstTruthy(def, keys, i) ==
  IF i > Len(keys) THEN Undefined
  ELSE IF ~Falsy(Field(def, keys[i])) THEN def[keys[i]]
  ELSE firstTruthy(def, keys, i + 1)

\* def?.f || def?.g || [] for list-valued fields
firstList(def, f, g) ==
  IF f \in DOMAIN def THEN def[f] ELSE IF g \in DOMAIN def THEN def[g] ELSE <<>>

RECURSIVE check(_, _)
RECURSIVE checkFields(_, _, _)
RECURSIVE checkItems(_, _, _, _, _)

\* for (const [key, field] of Object.entries(shape)) check(field, path.key)
checkFields(shape, i, currentPath) ==
  IF i > Len(shape) THEN <<>>
  ELSE check(shape[i][2], currentPath \o "." \o shape[i][1])
       \o checkFields(shape, i + 1, currentPath)

\* Counts the items from one.
RECURSIVE checkItems_oneBased(_, _, _, _, _)
checkItems_oneBased(list, i, currentPath, open, close) ==
  IF i > Len(list) THEN <<>>
  ELSE check(list[i], currentPath \o open \o ToString(i) \o close)
       \o checkItems_oneBased(list, i + 1, currentPath, open, close)

\* list.forEach((item, i) => check(item, `${path}${open}${i}${close}`))
checkItems(list, i, currentPath, open, close) ==
  IF i > Len(list) THEN <<>>
  ELSE check(list[i], currentPath \o open \o ToString(i - 1) \o close)
       \o checkItems(list, i + 1, currentPath, open, close)

checkIf(value, currentPath) ==
  IF Falsy(value) THEN <<>> ELSE check(value, currentPath)

check(value, currentPath) ==
  IF ~IsNode(value) THEN <<>>
  ELSE LET type == readZodType(value)
           def == readZodDefinition(value)
       IN IF type \in UnrepresentableTypes
          THEN <<[type |-> type, path |-> currentPath]>>
          ELSE CASE type = "object" ->
                      IF HasShape(value)
                      THEN checkFields(readShape(value), 1, currentPath)
                      ELSE <<>>
                 [] type = "array" ->
                      checkIf(firstTruthy(def, <<"element", "items", "type">>, 1),
                              currentPath \o "[]")
                 [] type = "tuple" ->
                      checkItems(firstList(def, "items", "items"), 1, currentPath, "[", "]")
                      \o checkIf(Field(def, "rest"), currentPath \o "[...]")
                 [] type \in {"union", "discriminatedunion"} ->
                      checkItems(firstList(def, "options", "schemas"), 1, currentPath,
                                 "<union[", "]>")
                 [] type = "intersection" ->
                      checkIf(Field(def, "left"), currentPath \o "<left>")
                      \o checkIf(Field(def, "right"), currentPath \o "<right>")
                 [] type = "record" ->
                      checkIf(firstTruthy(def, <<"valueType", "values">>, 1),
                              currentPath \o "<values>")
                      \o checkIf(firstTruthy(def, <<"keyType", "keys">>, 1),
                                 currentPath \o "<keys>")
                 [] type \in {"nullable", "optional"} ->
                      checkIf(firstTruthy(def, <<"innerType", "type">>, 1), currentPath)
                 [] type \in DECORATOR_WRAPPERS ->
                      checkIf(firstTruthy(def, InnerCandidates, 1), currentPath)
                 [] type = "lazy" -> <<[type |-> "lazy", path |-> currentPath]>>
                 [] OTHER -> <<>>

findUnrepresentableTypes(v) == check(v, "$")

\* ------------------------------------------------------ error composition
ErrorTag == "[@openai/agents]"

\* One bullet of the message: the path, the advice after the colon and the
\* text of the "Example:" line ("" when the bullet has none).
Bullet(path, verb, subject, with, example) ==
  [path |-> path, verb |-> verb, subject |-> subject, with |-> with,
   example |-> example]

fixFor(d) ==
  CASE d.type = "set" ->
         Bullet(d.path, "Replace", "z.set(T)", "z.array(T)",
                "z.set(z.string()) -> z.array(z.string())")
    [] d.type = "map" ->
         Bullet(d.path, "Replace", "z.map()", "z.record()",
                "z.map(z.string(), z.number()) -> z.record(z.string(), z.number())")
    [] d.type = "date" ->
         Bullet(d.path, "Replace", "z.date()", "z.string().datetime()",
                "z.date() -> z.string().datetime()")
    [] d.type = "promise" -> Bullet(d.path, "Remove", "z.promise()", "", "")
    [] d.type = "function" -> Bullet(d.path, "Remove", "z.function()", "", "")
    [] d.type = "symbol" ->
         Bullet(d.path, "Replace", "z.symbol()",
                "z.string() or z.enum(['symbol1', 'symbol2'])", "")
    [] d.type = "undefined" ->
         Bullet(d.path, "Replace", "z.undefined()", ".optional()",
                "field: z.undefined() -> field: z.string().optional()")
    [] d.type = "void" ->
         Bullet(d.path, "Replace", "z.void()", "z.null() or remove the field", "")
    [] d.type = "nan" -> Bullet(d.path, "Replace", "z.nan()", "z.number()", "")
    [] d.type = "custom" ->
         Bullet(d.path, "Replace", "z.custom()",
                "a concrete type like z.string(), z.number(), or z.object({...})", "")
    [] d.type = "lazy" ->
         Bullet(d.path, "Lazy/recursive types may not be fully representable", "", "", "")
    [] OTHER ->
         Bullet(d.path, "is not representable in JSON Schema", d.type, "", "")

\* Builds the bullets back to front.
fixes_reversed(found) == [i \in 1..Len(found) |-> fixFor(found[Len(found) + 1 - i])]

\* unrepresentableTypes.map(...)
fixes(found) == [i \in 1..Len(found) |-> fixFor(found[i])]

\* The Error thrown for a non-empty list of diagnostics: its message, part
\* by part.
unrepresentableError(found) ==
  [tag |-> ErrorTag,
   headline |-> "Cannot convert Zod 4 schema to JSON Schema.",
   count |-> Len(found),
   bullets |-> fixes(found),
   footer |-> "All of these types have JSON-compatible alternatives. Please update your schema."]

\* error.message.includes('[@openai/agents]')
hasErrorTag(error) == error.tag = ErrorTag

\* ------------------------------------------------------- native delegate
\* What require('zod/v4') / require('zod') and z.toJSONSchema do is outside
\* the module: the runtime has no zod, a zod without toJSONSchema, or one
\* whose toJSONSchema throws or returns a JSON value.
NativeDocument(required, additional) ==
  LET base == ("$schema" :> JSON_SCHEMA_DRAFT_07) @@
              [type |-> "object", properties |-> [native |-> [type |-> "string"]]]
      withRequired == IF required THEN base @@ [required |-> <<"native">>] ELSE base
  IN IF additional THEN withRequired @@ [additionalProperties |-> FALSE]
     ELSE withRequired

Runtimes ==
  {[zod |-> "missing"], [zod |-> "noToJSONSchema"], [zod |-> "throws"]}
  \cup {[zod |-> "returns", value |-> NativeDocument(r, a)] : r, a \in BOOLEAN}
  \cup {[zod |-> "returns",
          value |-> ("$schema" :> JSON_SCHEMA_DRAFT_07) @@ [type |-> "string"]]}

hasJsonSchemaObjectShape(value) ==
  /\ value.type = "object"
  /\ "properties" \in DOMAIN value
  /\ "additionalProperties" \in DOMAIN value

\* The result of the try block: a value, undefined or a thrown error, with
\* the trace of what was run.
Returned(value, trace) == [kind |-> "value", value |-> value, trace |-> trace]

ReturnedUndefined(trace) == [kind |-> "undefined", trace |-> trace]

Thrown(error, trace) == [kind |-> "throw", error |-> error, trace |-> trace]

tryBlock(v, marker, runtime) ==
  IF ~marker THEN ReturnedUndefined(<<>>)
  ELSE LET found == findUnrepresentableTypes(v)
       IN IF Len(found) > 0
          THEN Thrown(unrepresentableError(found), <<"scan">>)
          ELSE IF runtime.zod = "missing"
               THEN ReturnedUndefined(<<"scan", "require failed">>)
          ELSE IF runtime.zod = "noToJSONSchema"
               THEN ReturnedUndefined(<<"scan", "require", "no toJSONSchema">>)
          ELSE IF runtime.zod = "throws"
               THEN Thrown([tag |-> ""], <<"scan", "require", "toJSONSchema threw">>)
          ELSE IF ~hasJsonSchemaObjectShape(runtime.value)
               THEN ReturnedUndefined(<<"scan", "require", "toJSONSchema", "rejected">>)
          ELSE Returned(runtime.value, <<"scan", "require", "toJSONSchema", "accepted">>)

\* Swallows every error: the rethrow of the tagged error forgotten.
tryZod4NativeCompat_swallow(v, marker, runtime) ==
  LET r == tryBlock(v, marker, runtime)
  IN IF r.kind = "throw" THEN ReturnedUndefined(r.trace) ELSE r

\* Rethrows every error: the test of the tag forgotten.
tryZod4NativeCompat_rethrow(v, marker, runtime) == tryBlock(v, marker, runtime)

\* The catch clause: the tagged error is rethrown, any other is swallowed.
tryZod4NativeCompat(v, marker, runtime) ==
  LET r == tryBlock(v, marker, runtime)
  IN IF r.kind = "throw" /\ ~hasErrorTag(r.error) THEN ReturnedUndefined(r.trace)
     ELSE r

\* buildObjectSchema followed by the defaults for required,
\* additionalProperties and $schema.
manualCompat(v) ==
  LET schema == buildObjectSchema(v)
  IN IF IsAbsent(schema) THEN Absent
     ELSE LET withRequired == IF "required" \in DOMAIN schema THEN schema
                              ELSE schema @@ [required |-> <<>>]
              withAdditional == IF "additionalProperties" \in DOMAIN withRequired
                                THEN withRequired
                                ELSE withRequired @@ [additionalProperties |-> FALSE]
          IN IF "$schema" \in DOMAIN withAdditional THEN withAdditional
             ELSE withAdditional @@ ("$schema" :> JSON_SCHEMA_DRAFT_07)

\* The outcome of zodJsonSchemaCompat(input): a returned document, a
\* returned undefined (Absent) or a thrown error.
zodJsonSchemaCompat(v, marker, runtime) ==
  LET nativeResult == tryZod4NativeCompat(v, marker, runtime)
  IN IF nativeResult.kind = "throw"
     THEN [outcome |-> "thrown", error |-> nativeResult.error,
           trace |-> nativeResult.trace]
     ELSE IF nativeResult.kind = "value"
     THEN [outcome |-> "returned", ret |-> nativeResult.value,
           trace |-> nativeResult.trace]
     ELSE [outcome |-> "returned", ret |-> manualCompat(v),
           trace |-> Append(nativeResult.trace, "manual")]

\* ------------------------------------------------------------ the machine
\* `heap` holds the schema nodes declared so far, `input` the node handed to
\* the converter (Undefined while the schema is still being declared) and
\* `call` the last call made on it with what it returned. `mapping` is the
\* module's table of simple types as it is now: its entries are objects.
NoCall == [op |-> "none"]

Building == input = Undefined /\ Len(heap) < MaxNodes

\* The schema is complete and has not been converted yet.
Ready == input # Undefined /\ call = NoCall

NewId == Len(heap) + 1

Prev == Len(heap)

\* The nodes a new node may refer to: the two declared last.
Recent == {j \in 1..Len(heap) : j + 2 > Len(heap)}

Declare(node, seal) ==
  /\ heap' = Append(heap, node)
  /\ input' = IF seal THEN NewId ELSE Undefined
  /\ call' = NoCall
  /\ UNCHANGED mapping

Key(i) == "k" \o ToString(i)

\* z.string(), z.number(), z.any()
DeclareLeaf ==
  /\ Building
  /\ \E seal \in BOOLEAN :
       \E k \in (IF seal THEN {"string", "number", "any"} ELSE {"string", "any"}) :
         Declare([kind |-> k], seal)

\* x.optional(); a sealed optional may also wrap itself or nothing.
DeclareOptional ==
  /\ Building
  /\ \E seal \in BOOLEAN :
       \E inner \in (IF seal THEN Recent \cup {Undefined, NewId} ELSE {Prev}) :
         Declare(IF inner = Undefined
                 THEN [kind |-> "optional"]
                 ELSE [kind |-> "optional", innerType |-> inner], seal)

\* x.nullable()
DeclareNullable ==
  /\ Building /\ Prev # 0
  /\ Declare([kind |-> "nullable", innerType |-> Prev], TRUE)

\* x.brand(), x.default(), x.readonly(), x.transform(), z.pipe(), ...
\* Every decorator kind with its inner node under every candidate field;
\* for `brand` also two populated fields and a null first field.
DecoratorDefs(seal) ==
  IF ~seal
  THEN {("kind" :> "brand") @@ ("type" :> Prev)}
  ELSE {("kind" :> k) @@ (InnerCandidates[f] :> Prev) :
          k \in DECORATOR_WRAPPERS, f \in 1..Len(InnerCandidates)}
       \cup UNION {{("kind" :> "brand") @@ (InnerCandidates[f] :> v) @@
                      (InnerCandidates[f + 1] :> w) :
                      f \in 1..(Len(InnerCandidates) - 1), w \in Recent \ {v}} :
                    v \in {Prev, Null}}
       \cup {("kind" :> "brand") @@ ("innerType" :> NewId)}

DeclareDecorator ==
  /\ Building /\ Prev # 0
  /\ \E seal \in BOOLEAN : \E node \in DecoratorDefs(seal) : Declare(node, seal)

\* z.object({...}): up to MaxKeys keys in ascending or descending key order.
Shapes(seal) ==
  IF ~seal
  THEN {<< <<Key(1), Prev>> >>}
  ELSE UNION {
         {[i \in 1..n |-> <<Key(IF asc THEN i ELSE n + 1 - i), f[i]>>] :
            f \in [1..n -> 1..Prev], asc \in BOOLEAN} : n \in 0..MaxKeys}

DeclareObject ==
  /\ Building /\ Prev # 0
  /\ \E seal \in BOOLEAN : \E shape \in Shapes(seal) :
       Declare([kind |-> "object", shape |-> shape], seal)

CallConvertSchema ==
  /\ Ready
  /\ call' = [op |-> "convertSchema", ret |-> convertSchema(input)]
  /\ UNCHANGED <<heap, input, mapping>>

CallConvertProperty ==
  /\ Ready
  /\ call' = [op |-> "convertProperty", ret |-> convertProperty(input)]
  /\ UNCHANGED <<heap, input, mapping>>

CallBuildObjectSchema ==
  /\ Ready
  /\ call' = [op |-> "buildObjectSchema", ret |-> buildObjectSchema(input)]
  /\ UNCHANGED <<heap, input, mapping>>

\* Sequences of at most n elements of S.
SeqsUpTo(S, n) == UNION {[1..k -> S] : k \in 0..n}

\* z.enum([...]), z.nativeEnum({...}): the members as an array or as the
\* values of an object, under def.values, def.options or def.enum.
EnumDefs(seal) ==
  IF ~seal
  THEN {[kind |-> "enum", values |-> [isArray |-> TRUE, members |-> <<>>]]}
  ELSE {("kind" :> k) @@ (f :> [isArray |-> a, members |-> m]) :
          k \in {"enum", "nativeenum"}, f \in {"values", "options", "enum"},
          a \in BOOLEAN, m \in {<<>>, <<"a", "b">>}}
       \cup {[kind |-> "enum"]}

DeclareEnum ==
  /\ Building
  /\ \E seal \in BOOLEAN : \E node \in EnumDefs(seal) : Declare(node, seal)

\* z.tuple([...]) and z.tuple([...]).rest(x)
TupleDefs(seal) ==
  IF ~seal
  THEN {[kind |-> "tuple", items |-> IF Prev = 0 THEN <<>> ELSE <<Prev>>, rest |-> Null]}
  ELSE {[kind |-> "tuple", items |-> items, rest |-> rest] :
          items \in SeqsUpTo(Recent, MaxItems), rest \in {Null, Prev} \ {Undefined}}
       \cup {[kind |-> "tuple", items |-> items] : items \in SeqsUpTo(Recent, MaxItems)}
       \cup {[kind |-> "tuple"]}

DeclareTuple ==
  /\ Building
  /\ \E seal \in BOOLEAN : \E node \in TupleDefs(seal) : Declare(node, seal)

\* z.union([...]): the options under def.options or def.schemas.
UnionDefs(seal) ==
  IF ~seal
  THEN {[kind |-> "union", options |-> IF Prev = 0 THEN <<>> ELSE <<Prev>>]}
  ELSE {("kind" :> "union") @@ (f :> options) :
          f \in {"options", "schemas"}, options \in SeqsUpTo(Recent, MaxItems)}
       \cup {[kind |-> "union"]}

DeclareUnion ==
  /\ Building
  /\ \E seal \in BOOLEAN : \E node \in UnionDefs(seal) : Declare(node, seal)

\* z.set(), z.date(), z.promise(), ..., z.lazy(): the kinds the scanner reports.
DeclareScanLeaf ==
  /\ Building
  /\ \E seal \in BOOLEAN :
       \E k \in (IF seal THEN UnrepresentableTypes \cup {"lazy"}
                 ELSE {"set", "date"}) :
         Declare([kind |-> k], seal)

\* z.array(x): the element under def.element (Zod 4) or def.type (Zod 3).
DeclareArray ==
  /\ Building /\ Prev # 0
  /\ \E seal \in BOOLEAN :
       \E f \in (IF seal THEN {"element", "items", "type"} ELSE {"element"}) :
         Declare(("kind" :> "array") @@ (f :> Prev), seal)

\* z.intersection(a, b)
DeclareIntersection ==
  /\ Building /\ Prev # 0
  /\ \E left \in Recent, right \in Recent \cup {Undefined} :
       Declare(IF right = Undefined
               THEN [kind |-> "intersection", left |-> left]
               ELSE [kind |-> "intersection", left |-> left, right |-> right], TRUE)

\* z.record(k, v), z.map(k, v)
DeclareRecord ==
  /\ Building /\ Prev # 0
  /\ \E k \in {"record", "map"}, value \in Recent, key \in Recent \cup {Undefined} :
       Declare(IF key = Undefined
               THEN [kind |-> k, valueType |-> value]
               ELSE [kind |-> k, valueType |-> value, keyType |-> key], TRUE)

\* zodJsonSchemaCompat(input) for an input with or without the `_zod`
\* property, under one of the runtimes.
CallZodJsonSchemaCompat ==
  /\ Ready
  /\ \E marker \in BOOLEAN, runtime \in Runtimes :
       call' = [op |-> "zodJsonSchemaCompat", marker |-> marker]
               @@ zodJsonSchemaCompat(input, marker, runtime)
  /\ UNCHANGED <<heap, input, mapping>>

Init == heap = <<>> /\ input = Undefined /\ call = NoCall /\ mapping = SIMPLE_TYPE_MAPPING

\* Objects, optional wrappers and decorators.
Next ==
  \/ DeclareLeaf
  \/ DeclareOptional
  \/ DeclareNullable
  \/ DeclareDecorator
  \/ DeclareObject
  \/ CallConvertSchema
  \/ CallConvertProperty
  \/ CallBuildObjectSchema

Spec == Init /\ [][Next]_vars

\* Enums, tuples and unions, alone and inside objects.
NextList ==
  \/ DeclareLeaf
  \/ DeclareEnum
  \/ DeclareTuple
  \/ DeclareUnion
  \/ DeclareObject
  \/ CallConvertSchema
  \/ CallBuildObjectSchema

SpecList == Init /\ [][NextList]_vars

\* The node declared by this step is the input.
Sealing == input' # Undefined

\* The node declared by this step does not wrap itself.
NotSelfWrapping ==
  \A i \in 1..Len(InnerCandidates) :
    Field(heap'[Len(heap')], InnerCandidates[i]) # Len(heap')

\* The schemas handed to the entry point have fewer than MaxNodes nodes.
Small == Len(heap') < MaxNodes

\* The entry point, over every kind the scanner knows; the trees are finite.
NextCompat ==
  \/ (DeclareLeaf /\ Small)
  \/ (DeclareScanLeaf /\ Small)
  \/ (DeclareOptional /\ Small /\ NotSelfWrapping)
  \/ (DeclareArray /\ Small)
  \/ (DeclareObject /\ Small)
  \/ (DeclareNullable /\ Small)
  \/ (DeclareDecorator /\ Small /\ Sealing /\ NotSelfWrapping)
  \/ (DeclareTuple /\ Small /\ Sealing)
  \/ (DeclareUnion /\ Small /\ Sealing)
  \/ (DeclareIntersection /\ Small)
  \/ (DeclareRecord /\ Small)
  \/ CallZodJsonSchemaCompat

SpecCompat == Init /\ [][NextCompat]_vars

\* --------------------------------------------- unwrapDecorators, stepwise
\* The node declared by this step is not yet handed to the converter.
Unsealed == input' = Undefined

\* A decorator's inner field is a reference: it can be set to any node,
\* the decorator itself or one that leads back to it included.
LinkInner ==
  /\ Building
  /\ \E v \in 1..Len(heap), w \in 1..Len(heap) :
       /\ heap[v].kind \in DECORATOR_WRAPPERS
       /\ heap' = [heap EXCEPT ![v] = [kind |-> heap[v].kind, innerType |-> w]]
  /\ UNCHANGED <<input, call, mapping>>

\* let current = value
CallUnwrapDecorators ==
  /\ input = Undefined /\ call = NoCall
  /\ \E value \in 1..Len(heap) :
       /\ input' = value
       /\ call' = [op |-> "unwrapDecorators", pc |-> "while", current |-> value]
  /\ UNCHANGED <<heap, mapping>>

\* One test of the while condition and, if it holds, one run of the body.
StepUnwrapDecorators ==
  /\ call.op = "unwrapDecorators" /\ call.pc = "while"
  /\ IF readZodType(call.current) \in DECORATOR_WRAPPERS
     THEN LET next == firstNonNullish(readZodDefinition(call.current),
                                      InnerCandidates, 1)
          IN IF Falsy(next) \/ next = call.current
             THEN call' = [call EXCEPT !.pc = "returned"]
             ELSE call' = [call EXCEPT !.current = next]
     ELSE call' = [call EXCEPT !.pc = "returned"]
  /\ UNCHANGED <<heap, input, mapping>>

NextUnwrap ==
  \/ (DeclareLeaf /\ Unsealed)
  \/ (DeclareDecorator /\ Unsealed)
  \/ LinkInner
  \/ CallUnwrapDecorators
  \/ StepUnwrapDecorators

\* A call that has started keeps running: the loop is never suspended.
SpecUnwrap == Init /\ [][NextUnwrap]_vars /\ WF_vars(StepUnwrapDecorators)

\* ------------------------------------------------- the scanner, stepwise
\* The calls of check made by the body of check(value, currentPath), in
\* order: each `if (x) check(x, ...)` only for a truthy x.
callIf(value, currentPath) ==
  IF Falsy(value) THEN <<>> ELSE <<[value |-> value, path |-> currentPath]>>

callsOf(value, currentPath) ==
  LET type == readZodType(value)
      def == readZodDefinition(value)
  IN CASE type \in UnrepresentableTypes -> <<>>
       [] type = "object" ->
            IF HasShape(value)
            THEN [i \in 1..Len(readShape(value)) |->
                    [value |-> readShape(value)[i][2],
                     path |-> currentPath \o "." \o readShape(value)[i][1]]]
            ELSE <<>>
       [] type = "array" ->
            callIf(firstTruthy(def, <<"element", "items", "type">>, 1),
                   currentPath \o "[]")
       [] type = "tuple" ->
            [i \in 1..Len(firstList(def, "items", "items")) |->
               [value |-> firstList(def, "items", "items")[i],
                path |-> currentPath \o "[" \o ToString(i - 1) \o "]"]]
            \o callIf(Field(def, "rest"), currentPath \o "[...]")
       [] type \in {"union", "discriminatedunion"} ->
            [i \in 1..Len(firstList(def, "options", "schemas")) |->
               [value |-> firstList(def, "options", "schemas")[i],
                path |-> currentPath \o "<union[" \o ToString(i - 1) \o "]>"]]
       [] type = "intersection" ->
            callIf(Field(def, "left"), currentPath \o "<left>")
            \o callIf(Field(def, "right"), currentPath \o "<right>")
       [] type = "record" ->
            callIf(firstTruthy(def, <<"valueType", "values">>, 1),
                   currentPath \o "<values>")
            \o callIf(firstTruthy(def, <<"keyType", "keys">>, 1),
                      currentPath \o "<keys>")
       [] type \in {"nullable", "optional"} ->
            callIf(firstTruthy(def, <<"innerType", "type">>, 1), currentPath)
       [] type \in DECORATOR_WRAPPERS ->
            callIf(firstTruthy(def, InnerCandidates, 1), currentPath)
       [] OTHER -> <<>>

\* What the body of check(value, currentPath) pushes onto `found` itself.
pushedBy(value, currentPath) ==
  IF readZodType(value) \in UnrepresentableTypes \cup {"lazy"}
  THEN <<[type |-> readZodType(value), path |-> currentPath]>>
  ELSE <<>>

\* The engine's call stack holds finitely many frames of check; a schema
\* without a cycle needs at most one frame per node, and one for the caller.
StackLimit == MaxNodes + 1

\* z.lazy(() => x): the getter may return any node, the lazy node included.
DeclareLazy ==
  /\ Building
  /\ \E getter \in 1..NewId : Declare([kind |-> "lazy", getter |-> getter], FALSE)

\* A child of a node is a reference (in Zod 4 a getter of the shape): the
\* field of an object, the element of an array or the inner node of a
\* wrapper can be any node, an ancestor included. The schema is then
\* complete and `root` is handed to the scanner.
LinkChild ==
  /\ Building
  /\ \E v \in 1..Len(heap), w \in 1..Len(heap), root \in 1..Len(heap) :
       /\ heap[v].kind \in {"object", "array", "optional", "brand"}
       /\ heap' = [heap EXCEPT ![v] =
            CASE heap[v].kind = "object" ->
                   [kind |-> "object", shape |-> << <<Key(1), w>> >>]
              [] heap[v].kind = "array" -> [kind |-> "array", element |-> w]
              [] OTHER -> [kind |-> heap[v].kind, innerType |-> w]]
       /\ input' = root
  /\ UNCHANGED <<call, mapping>>

\* findUnrepresentableTypes(input): found = [], then check(input, '$').
CallFindUnrepresentableTypes ==
  /\ Ready
  /\ call' = [op |-> "findUnrepresentableTypes", pc |-> "check",
              stack |-> << <<[value |-> input, path |-> "$"]>> >>,
              found |-> <<>>]
  /\ UNCHANGED <<heap, input, mapping>>

\* One step of the running scan. Each frame of `stack` holds the calls of
\* check its body has still to make. The top frame either returns (none
\* left) or makes its next call, which returns at once for a value that is
\* not an object and otherwise pushes what its kind says and opens a frame;
\* a frame beyond the stack's limit is the engine's RangeError.
StepCheck ==
  /\ call.op = "findUnrepresentableTypes" /\ call.pc = "check"
  /\ LET depth == Len(call.stack)
         top == call.stack[depth]
     IN IF top = <<>>
        THEN IF depth = 1
             THEN call' = [call EXCEPT !.pc = "returned", !.stack = <<>>]
             ELSE call' = [call EXCEPT !.stack = SubSeq(call.stack, 1, depth - 1)]
        ELSE LET c == Head(top)
                 rest == [call.stack EXCEPT ![depth] = Tail(top)]
             IN IF ~IsNode(c.value)
                THEN call' = [call EXCEPT !.stack = rest]
                ELSE IF depth >= StackLimit
                THEN call' = [call EXCEPT !.pc = "RangeError"]
                ELSE call' = [call EXCEPT
                       !.found = call.found \o pushedBy(c.value, c.path),
                       !.stack = Append(rest, callsOf(c.value, c.path))]
  /\ UNCHANGED <<heap, input, mapping>>

\* Schemas with at most one back reference, scanned step by step.
NextScan ==
  \/ (DeclareLeaf /\ Small)
  \/ (DeclareScanLeaf /\ Small)
  \/ (DeclareLazy /\ Small)
  \/ (DeclareObject /\ Small)
  \/ (DeclareArray /\ Small)
  \/ (DeclareOptional /\ Small /\ Unsealed)
  \/ (DeclareDecorator /\ Small /\ Unsealed)
  \/ LinkChild
  \/ CallFindUnrepresentableTypes
  \/ StepCheck

SpecScan == Init /\ [][NextScan]_vars

\* ------------------------------------------------ results and the table
\* convertSchema returns SIMPLE_TYPE_MAPPING[type] itself, not a copy. The
\* table entries that are part of the result of convertSchema(v): the entry
\* that is the result, and those that are properties of the result.
tableEntriesIn(v) ==
  LET unwrapped == unwrapDecorators(v)
      fieldNode(i) == stripOptional(unwrapDecorators(readShape(unwrapped)[i][2]),
                                    FALSE).node
  IN IF readZodType(unwrapped) \in DOMAIN mapping
     THEN {readZodType(unwrapped)}
     ELSE IF readZodType(unwrapped) = "object" /\ HasShape(unwrapped)
             /\ ~IsAbsent(convertSchema(v))
     THEN {readZodType(fieldNode(i)) : i \in 1..Len(readShape(unwrapped))}
          \cap DOMAIN mapping
     ELSE {}

\* The caller assigns to a property of an entry of the result it was given
\* (entry.type = ...). The entry is an object of the table.
ChangeResult ==
  /\ call.op = "convertSchema"
  /\ \E type \in tableEntriesIn(input) :
       mapping' = [mapping EXCEPT ![type] = [@ EXCEPT !.type = "changed"]]
  /\ call' = [op |-> "result changed", ret |-> call.ret]
  /\ UNCHANGED <<heap, input>>

\* A later call of convertSchema on the same input; `first` is what the
\* first call returned.
CallConvertSchemaAgain ==
  /\ call.op \in {"convertSchema", "result changed"}
  /\ call' = [op |-> "convertSchema again", first |-> call.ret,
              ret |-> convertSchema(input)]
  /\ UNCHANGED <<heap, input, mapping>>

\* Two calls on one schema, with a caller that may change the first result.
NextShared ==
  \/ DeclareLeaf
  \/ DeclareOptional
  \/ DeclareDecorator
  \/ DeclareObject
  \/ CallConvertSchema
  \/ ChangeResult
  \/ CallConvertSchemaAgain

SpecShared == Init /\ [][NextShared]_vars

\* Every kind the manual converter builds, nested, converted from the root.
NextNested ==
  \/ (DeclareLeaf /\ Small)
  \/ (DeclareOptional /\ Small /\ NotSelfWrapping)
  \/ (DeclareDecorator /\ Small /\ Unsealed)
  \/ (DeclareNullable /\ Small)
  \/ (DeclareArray /\ Small)
  \/ (DeclareTuple /\ Small)
  \/ (DeclareUnion /\ Small)
  \/ (DeclareIntersection /\ Small)
  \/ (DeclareRecord /\ Small)
  \/ (DeclareObject /\ Small)
  \/ CallConvertSchema

SpecNested == Init /\ [][NextNested]_vars

\* ------------------------------------------------------------------ claims
\* The populated inner field of a decorator node that comes first in the
\* priority order innerType, schema, base, type, wrapped, underlying.
FirstInner(v) ==
  LET order == <<"innerType", "schema", "base", "type", "wrapped", "underlying">>
      populated == {i \in 1..Len(order) :
                      order[i] \in DOMAIN heap[v] /\ heap[v][order[i]] \notin {Undefined, Null}}
  IN IF populated = {} THEN Undefined
     ELSE heap[v][order[CHOOSE i \in populated : \A j \in populated : i <= j]]

IsDecorator(v) ==
  /\ IsNode(v)
  /\ heap[v].kind \in DECORATOR_WRAPPERS
  /\ IsNode(FirstInner(v))
  /\ FirstInner(v) # v

\* The field node v is reached through an `optional` wrapper: the first node
\* under its decorators is an optional.
RECURSIVE ThroughOptional(_)
ThroughOptional(v) ==
  IF IsDecorator(v) THEN ThroughOptional(FirstInner(v))
  ELSE IsNode(v) /\ heap[v].kind = "optional"

KeysOf(shape) == [i \in 1..Len(shape) |-> shape[i][1]]

\* An object entry was returned for the object node `input`.
ObjectReturned ==
  /\ call.op \in {"buildObjectSchema", "convertSchema"}
  /\ IsNode(input) /\ heap[input].kind = "object"
  /\ ~IsAbsent(call.ret)

\* C1: the `required` array of a converted object holds exactly the keys of
\* the fields not reached through an optional wrapper, once each and in the
\* order of the shape; every key, optional or not, is in `properties`.
C1_RequiredKeys ==
  ObjectReturned =>
    LET shape == readShape(input)
    IN /\ call.ret.required =
            KeysOf(SelectSeq(shape, LAMBDA p : ~ThroughOptional(p[2])))
       /\ \A i \in 1..Len(shape) :
            /\ shape[i][1] \in DOMAIN call.ret.properties
            /\ ThroughOptional(shape[i][2]) =>
                 \A j \in 1..Len(call.ret.required) : call.ret.required[j] # shape[i][1]

\* An object with a required field, and an optional one that sits behind a
\* decorator, was converted.
C1_Witness ==
  /\ ObjectReturned
  /\ Len(call.ret.required) >= 1
  /\ \E i \in 1..Len(readShape(input)) :
       /\ ThroughOptional(readShape(input)[i][2])
       /\ IsDecorator(readShape(input)[i][2])
  /\ \E i \in 1..Len(readShape(input)) :
       i > 1 /\ readShape(input)[i][1] = call.ret.required[1]

\* C6: an object whose field fails to convert is itself absent; a converted
\* object has one property for every key of the shape and no other.
C6_NoPartialObject ==
  (/\ call.op \in {"buildObjectSchema", "convertSchema"}
   /\ IsNode(input) /\ heap[input].kind = "object" /\ HasShape(input)) =>
    LET shape == readShape(input)
    IN IF \E i \in 1..Len(shape) : IsAbsent(convertProperty(shape[i][2]).schema)
       THEN IsAbsent(call.ret)
       ELSE /\ ~IsAbsent(call.ret)
            /\ DOMAIN call.ret.properties = {shape[i][1] : i \in 1..Len(shape)}
            /\ \A i \in 1..Len(shape) :
                 call.ret.properties[shape[i][1]] = convertProperty(shape[i][2]).schema

\* An object with a field that converts and a nested object that does not
\* was given up as a whole.
C6_Witness ==
  /\ call.op = "buildObjectSchema"
  /\ HasShape(input)
  /\ IsAbsent(call.ret)
  /\ \E i, j \in 1..Len(readShape(input)) :
       /\ ~IsAbsent(convertProperty(readShape(input)[i][2]).schema)
       /\ heap[readShape(input)[j][2]].kind = "object"
       /\ IsAbsent(convertProperty(readShape(input)[j][2]).schema)

\* C7: a decorator node converts to the entry of its first populated inner
\* node, and as an object field is optional exactly when that node is.
C7_DecoratorTransparent ==
  (IsNode(input) /\ IsDecorator(input)) =>
    /\ call.op = "convertSchema" => call.ret = convertSchema(FirstInner(input))
    /\ call.op = "convertProperty" => call.ret = convertProperty(FirstInner(input))

\* A decorator over an optional over a decorator was converted as a field.
C7_Witness ==
  /\ IsNode(input) /\ IsDecorator(input)
  /\ call.op = "convertProperty"
  /\ call.ret.optional
  /\ ~IsAbsent(call.ret.schema)
  /\ heap[input].kind = "pipe"
  /\ "wrapped" \in DOMAIN heap[input]

\* The converted node is a tuple, a union or an enum.
Converted(kinds) ==
  /\ call.op = "convertSchema"
  /\ IsNode(input) /\ heap[input].kind \in kinds

DeclaredItems(v) ==
  IF heap[v].kind = "tuple" THEN coerceArray(heap[v], "items")
  ELSE IF "options" \in DOMAIN heap[v] THEN heap[v].options
  ELSE coerceArray(heap[v], "schemas")

EntryList(e) == IF "anyOf" \in DOMAIN e THEN e.anyOf ELSE e.items

\* C5: a tuple or union with an item or option that fails to convert is
\* absent, so an entry never has fewer items than its node declares.
C5_AllItemsOrNothing ==
  Converted({"tuple", "union"}) =>
    /\ (\E i \in 1..Len(DeclaredItems(input)) :
          IsAbsent(convertSchema(DeclaredItems(input)[i]))) => IsAbsent(call.ret)
    /\ ~IsAbsent(call.ret) =>
          Len(EntryList(call.ret)) = Len(DeclaredItems(input))

\* C8: a tuple entry has minItems equal to its number of items, its items
\* are conversions of the node's items in their positional order, and it
\* has maxItems, equal to the same count, exactly when the node has no rest.
C8_TupleCounts ==
  (Converted({"tuple"}) /\ ~IsAbsent(call.ret)) =>
    LET declared == DeclaredItems(input)
        items == call.ret.items
    IN /\ call.ret.type = "array"
       /\ call.ret.minItems = Len(items)
       /\ "maxItems" \in DOMAIN call.ret <=> Field(heap[input], "rest") \in {Undefined, Null}
       /\ "maxItems" \in DOMAIN call.ret => call.ret.maxItems = Len(items)
       /\ \E g \in [1..Len(items) -> 1..Len(declared)] :
            /\ \A a, b \in 1..Len(items) : a < b => g[a] < g[b]
            /\ \A a \in 1..Len(items) :
                 /\ ~IsAbsent(convertSchema(declared[g[a]]))
                 /\ items[a] = convertSchema(declared[g[a]])

\* A tuple of two items of different kinds, with a rest element, was
\* converted to an entry of two items.
C8_Witness ==
  /\ Converted({"tuple"}) /\ ~IsAbsent(call.ret)
  /\ Len(call.ret.items) = 2
  /\ heap[DeclaredItems(input)[1]].kind # heap[DeclaredItems(input)[2]].kind
  /\ \A i \in 1..2 :
       "enum" \in DOMAIN call.ret.items[i] => Len(call.ret.items[i].enum) > 0
  /\ "maxItems" \notin DOMAIN call.ret

\* C10: the list of an enum, union or tuple entry is never empty.
C10_NonEmptyLists ==
  (Converted({"enum", "nativeenum", "union", "tuple"}) /\ ~IsAbsent(call.ret)) =>
    /\ "enum" \in DOMAIN call.ret => Len(call.ret.enum) > 0
    /\ "anyOf" \in DOMAIN call.ret => Len(call.ret.anyOf) > 0
    /\ "items" \in DOMAIN call.ret => Len(call.ret.items) > 0

\* zodJsonSchemaCompat was called on an input with the `_zod` marker.
CompatCalled == call.op = "zodJsonSchemaCompat"

Outcome(r) == [f \in DOMAIN r \ {"op", "marker"} |-> r[f]]

\* C2: for an input with the marker and at least one diagnostic, the tagged
\* error is thrown right after the scan, whatever the runtime offers: no
\* document, no undefined, no manual conversion, no load of the native
\* converter.
C2_FatalOnDiagnostics ==
  (CompatCalled /\ call.marker /\ Len(findUnrepresentableTypes(input)) > 0) =>
    /\ call.outcome = "thrown"
    /\ hasErrorTag(call.error)
    /\ call.trace = <<"scan">>
    /\ \A runtime \in Runtimes :
         zodJsonSchemaCompat(input, TRUE, runtime) = Outcome(call)

\* A nested unrepresentable type made the call throw.
C2_Witness ==
  /\ CompatCalled /\ call.marker
  /\ call.outcome = "thrown"
  /\ heap[input].kind = "object"
  /\ \E i \in 1..Len(findUnrepresentableTypes(input)) :
       findUnrepresentableTypes(input)[i].path = "$.k1.k1"

InTrace(event) == \E i \in 1..Len(call.trace) : call.trace[i] = event

\* C3: without the marker neither the scanner nor the native converter runs,
\* and when the native converter cannot be loaded, throws, or returns
\* something that is no object schema, nothing is raised: the call returns
\* what the manual converter produces for the input.
C3_FallsThrough ==
  CompatCalled =>
    /\ ~call.marker => call.trace = <<"manual">>
    /\ (\/ ~call.marker
        \/ InTrace("require failed")
        \/ InTrace("no toJSONSchema")
        \/ InTrace("toJSONSchema threw")
        \/ InTrace("rejected")) =>
          /\ call.outcome = "returned"
          /\ call.ret = manualCompat(input)
          /\ call.trace[Len(call.trace)] = "manual"

\* The native converter threw on a clean input and the manual converter
\* produced the document.
C3_Witness ==
  /\ CompatCalled /\ call.marker
  /\ InTrace("toJSONSchema threw")
  /\ call.outcome = "returned"
  /\ ~IsAbsent(call.ret)
  /\ Len(call.ret.required) = 1

\* C4: every returned document, from the native converter or from the
\* manual one, has type "object", properties, a required array,
\* additionalProperties false and the draft-07 $schema.
C4_DocumentShape ==
  (CompatCalled /\ call.outcome = "returned" /\ ~IsAbsent(call.ret)) =>
    /\ call.ret.type = "object"
    /\ "properties" \in DOMAIN call.ret
    /\ "required" \in DOMAIN call.ret
    /\ "additionalProperties" \in DOMAIN call.ret
    /\ call.ret.additionalProperties = FALSE
    /\ "$schema" \in DOMAIN call.ret
    /\ call.ret["$schema"] = JSON_SCHEMA_DRAFT_07

\* The thrown message begins with the tag and the headline, states the
\* number of diagnostics and has one bullet per diagnostic, in scanner
\* order, with that diagnostic's path.
BulletPerDiagnostic ==
  LET found == findUnrepresentableTypes(input)
  IN /\ call.error.tag = "[@openai/agents]"
     /\ call.error.headline = "Cannot convert Zod 4 schema to JSON Schema."
     /\ call.error.count = Len(found)
     /\ Len(call.error.bullets) = Len(found)
     /\ \A i \in 1..Len(found) : call.error.bullets[i].path = found[i].path

NamesReplacement(bullet) == bullet.verb = "Replace" /\ bullet.with # ""

C11_UnwrapTerminates ==
  (call.op = "unwrapDecorators") ~> (call.op = "unwrapDecorators" /\ call.pc = "returned")

\* Every node has a smaller index than the nodes that refer to it: the
\* schema is a finite tree, possibly with shared subtrees.
Acyclic ==
  \A v \in 1..Len(heap) : \A i \in 1..Len(callsOf(v, "")) :
    callsOf(v, "")[i].value < v

\* C12: a scan never runs out of stack, also when a field, an element or
\* an inner node refers back to an ancestor: it returns its list.
C12_ScanTerminates ==
  call.op = "findUnrepresentableTypes" => call.pc # "RangeError"

\* The stepwise scan and the recursive one return the same list.
ScanAgrees ==
  (call.op = "findUnrepresentableTypes" /\ call.pc = "returned" /\ Acyclic) =>
    call.found = findUnrepresentableTypes(input)

\* The marker a path gains on the way from a node to each of its children.
Edges(v) ==
  LET def == heap[v]
      kind == def.kind
      one(suffix, child) ==
        IF IsNode(child) THEN {[suffix |-> suffix, node |-> child]} ELSE {}
      many(list, open, close) ==
        UNION {one(open \o ToString(i - 1) \o close, list[i]) : i \in 1..Len(list)}
  IN CASE kind = "object" /\ "shape" \in DOMAIN def ->
            UNION {one("." \o def.shape[i][1], def.shape[i][2]) :
                     i \in 1..Len(def.shape)}
       [] kind = "array" ->
            one("[]", firstTruthy(def, <<"element", "items", "type">>, 1))
       [] kind = "tuple" ->
            many(IF "items" \in DOMAIN def THEN def.items ELSE <<>>, "[", "]")
            \cup one("[...]", Field(def, "rest"))
       [] kind \in {"union", "discriminatedunion"} ->
            many(IF "options" \in DOMAIN def THEN def.options
                 ELSE IF "schemas" \in DOMAIN def THEN def.schemas ELSE <<>>,
                 "<union[", "]>")
       [] kind = "intersection" ->
            one("<left>", Field(def, "left")) \cup one("<right>", Field(def, "right"))
       [] kind = "record" ->
            one("<values>", firstTruthy(def, <<"valueType", "values">>, 1))
            \cup one("<keys>", firstTruthy(def, <<"keyType", "keys">>, 1))
       [] kind \in {"nullable", "optional"} ->
            one("", firstTruthy(def, <<"innerType", "type">>, 1))
       [] kind \in DECORATOR_WRAPPERS ->
            one("", firstTruthy(def, InnerCandidates, 1))
       [] OTHER -> {}

\* The nodes reachable from the walks W in at most n more steps, each with
\* the path of the walk that reaches it.
RECURSIVE WalksFrom(_, _)
WalksFrom(W, n) ==
  IF n = 0 THEN W
  ELSE WalksFrom(W \cup UNION {{[node |-> e.node, path |-> w.path \o e.suffix] :
                                  e \in Edges(w.node)} : w \in W}, n - 1)

\* The unrepresentable nodes reachable from the input, one element for each
\* path that leads to one.
Targets ==
  {w \in WalksFrom({[node |-> input, path |-> "$"]}, Len(heap)) :
     heap[w.node].kind \in UnrepresentableTypes}

Scanned == CompatCalled /\ call.marker /\ IsNode(input)

\* The diagnostics that report the node `n` by one of its paths.
ReportsOf(n) ==
  {i \in 1..Len(findUnrepresentableTypes(input)) :
     \E w \in Targets :
       /\ w.node = n
       /\ findUnrepresentableTypes(input)[i] =
            [type |-> heap[n].kind, path |-> w.path]}

\* Every diagnostic of an unrepresentable kind reports a reachable
\* unrepresentable node by a path that leads to it.
OnlyTargetsReported ==
  \A i \in 1..Len(findUnrepresentableTypes(input)) :
    findUnrepresentableTypes(input)[i].type \in UnrepresentableTypes =>
      \E w \in Targets :
        findUnrepresentableTypes(input)[i] =
          [type |-> heap[w.node].kind, path |-> w.path]

\* C13 as stated: each reachable unrepresentable node is reported exactly
\* once, by its path, and nothing below one is reported.
C13_EachNodeOnce ==
  Scanned =>
    /\ \A w \in Targets : Cardinality(ReportsOf(w.node)) = 1
    /\ OnlyTargetsReported

\* C13, amended: each reachable unrepresentable node is reported exactly
\* once for each path that leads to it, with that path, and nothing below
\* one is reported.
C13_EachPathOnce ==
  Scanned =>
    /\ \A w \in Targets :
         Cardinality({i \in 1..Len(findUnrepresentableTypes(input)) :
                        findUnrepresentableTypes(input)[i] =
                          [type |-> heap[w.node].kind, path |-> w.path]}) = 1
    /\ OnlyTargetsReported

\* One unrepresentable node is the value of two fields of the input and is
\* reported once at each of the two paths.
C13_Witness ==
  /\ Scanned /\ call.outcome = "thrown"
  /\ heap[input].kind = "object"
  /\ \E w1, w2 \in Targets :
       /\ w1.node = w2.node
       /\ w1.path = "$.k1" /\ w2.path = "$.k2"
  /\ Len(findUnrepresentableTypes(input)) = 2

\* The children of a node in the order of their declaration: the fields of
\* an object in shape order, the items of a tuple by index and then its
\* rest element, the options of a union by index, the left side of an
\* intersection before the right, the key type of a record before its
\* value type. `recordKeyFirst` tells whether the key type comes first.
Declared(v, recordKeyFirst) ==
  LET def == heap[v]
      kind == def.kind
      one(suffix, child) ==
        IF IsNode(child) THEN <<[suffix |-> suffix, node |-> child]>> ELSE <<>>
      list == IF kind = "tuple"
              THEN (IF "items" \in DOMAIN def THEN def.items ELSE <<>>)
              ELSE IF "options" \in DOMAIN def THEN def.options
              ELSE IF "schemas" \in DOMAIN def THEN def.schemas ELSE <<>>
      many(open, close) ==
        [i \in 1..Len(list) |->
           [suffix |-> open \o ToString(i - 1) \o close, node |-> list[i]]]
      keys == one("<keys>", firstTruthy(def, <<"keyType", "keys">>, 1))
      values == one("<values>", firstTruthy(def, <<"valueType", "values">>, 1))
  IN CASE kind = "object" /\ "shape" \in DOMAIN def ->
            [i \in 1..Len(def.shape) |->
               [suffix |-> "." \o def.shape[i][1], node |-> def.shape[i][2]]]
       [] kind = "array" ->
            one("[]", firstTruthy(def, <<"element", "items", "type">>, 1))
       [] kind = "tuple" -> many("[", "]") \o one("[...]", Field(def, "rest"))
       [] kind \in {"union", "discriminatedunion"} -> many("<union[", "]>")
       [] kind = "intersection" ->
            one("<left>", Field(def, "left")) \o one("<right>", Field(def, "right"))
       [] kind = "record" ->
            IF recordKeyFirst THEN keys \o values ELSE values \o keys
       [] kind \in {"nullable", "optional"} ->
            one("", firstTruthy(def, <<"innerType", "type">>, 1))
       [] kind \in DECORATOR_WRAPPERS ->
            one("", firstTruthy(def, InnerCandidates, 1))
       [] OTHER -> <<>>

\* The diagnostics below `v` in the order of a depth-first traversal that
\* visits the children of every node in the order of Declared.
RECURSIVE DepthFirst(_, _, _)
RECURSIVE DepthFirstFrom(_, _, _, _)
DepthFirstFrom(children, i, path, recordKeyFirst) ==
  IF i > Len(children) THEN <<>>
  ELSE DepthFirst(children[i].node, path \o children[i].suffix, recordKeyFirst)
       \o DepthFirstFrom(children, i + 1, path, recordKeyFirst)

DepthFirst(v, path, recordKeyFirst) ==
  IF ~IsNode(v) THEN <<>>
  ELSE IF heap[v].kind \in UnrepresentableTypes \cup {"lazy"}
  THEN <<[type |-> heap[v].kind, path |-> path]>>
  ELSE DepthFirstFrom(Declared(v, recordKeyFirst), 1, path, recordKeyFirst)

\* C14: the diagnostics are in the order of a depth-first traversal that
\* visits the children of every node in declaration order, the key type of
\* a record before its value type.
C14_DeclarationOrder ==
  Scanned => findUnrepresentableTypes(input) = DepthFirst(input, "$", TRUE)

\* The same order but for records, whose value type comes before the key
\* type.
OrderValuesFirst ==
  Scanned => findUnrepresentableTypes(input) = DepthFirst(input, "$", FALSE)

\* C15: the entries of a result are fresh, so whatever the caller does to
\* the result of one call, a later call on the same schema returns what
\* the first one returned.
C15_FreshEntries ==
  call.op = "convertSchema again" => call.ret = call.first

\* The nodes a node of a compound kind has at the positions where the
\* converter takes an element, an item, an option, a side, a value type or
\* the inner node of a nullable.
PositionsOf(v) ==
  LET def == heap[v]
      kind == def.kind
      nodes(list) == {list[i] : i \in 1..Len(list)} \cap 1..Len(heap)
  IN CASE kind = "array" -> {extractFirst(def, <<"element", "items", "type">>)}
       [] kind = "tuple" -> nodes(coerceArray(def, "items"))
       [] kind = "union" ->
            nodes(IF "options" \in DOMAIN def THEN def.options
                  ELSE coerceArray(def, "schemas"))
       [] kind = "intersection" -> {Field(def, "left"), Field(def, "right")}
       [] kind \in {"record", "map"} ->
            {firstNonNullish(def, <<"valueType", "values">>, 1)}
       [] kind = "set" -> {Field(def, "valueType")}
       [] kind = "nullable" -> {firstNonNullish(def, <<"innerType", "type">>, 1)}
       [] OTHER -> {}

\* The node a field stands for once its decorators and optional layers
\* are removed.
FieldNodes(v) ==
  IF HasShape(v)
  THEN {stripOptional(unwrapDecorators(readShape(v)[i][2]), FALSE).node :
          i \in 1..Len(readShape(v))}
  ELSE {}

\* Under its decorators, `c` is an `optional` node.
IsOptional(c) == IsNode(c) /\ readZodType(unwrapDecorators(c)) = "optional"

\* The schema below `v` holds an `optional` that is not understood: one at
\* a position of a compound node, or one left in a field because it has
\* no inner node.
RECURSIVE HoldsStrayOptional(_)
HoldsStrayOptional(v) ==
  LET u == unwrapDecorators(v)
  IN /\ IsNode(u)
     /\ \/ \E c \in PositionsOf(u) \cap 1..Len(heap) :
             IsOptional(c) \/ HoldsStrayOptional(c)
        \/ /\ readZodType(u) = "object"
           /\ \E c \in FieldNodes(u) \cap 1..Len(heap) :
                c # u /\ (readZodType(c) = "optional" \/ HoldsStrayOptional(c))

\* C16: convertSchema is absent for an `optional` node, and for every
\* schema that holds one anywhere but as the outer layers of an object
\* field with an inner node: the failure reaches the root.
C16_StrayOptionalFails ==
  call.op = "convertSchema" =>
    ((IsOptional(input) \/ HoldsStrayOptional(input)) => IsAbsent(call.ret))
====
